---- MODULE Spec2Model ----
(***************************************************************************)
(* State-machine model of the two converters of the repository:            *)
(*   - wolfenstein_2_resources.py : the IDCL archive extractor             *)
(*   - md6mesh.py                 : the .bmd6model to OBJ converter        *)
(* Strings are sequences of one-character strings, byte strings are        *)
(* sequences of integers 0..255.                                           *)
(***************************************************************************)
EXTENDS Integers, Sequences, FiniteSets, TLC

VARIABLES
    \* ---- wolfenstein_2_resources.py ----
    EXTRACT_GARBAGE,   \* module configuration flag (line 16)
    OODLE_AVAILABLE,   \* set by load_oodle() before extract_resources runs
    raw_names,         \* the name table of the archive: the strings read_cstring returns
    names,             \* names[] of extract_resources, filled by the name loop
    files_count,       \* header field files_count
    apc,               \* position of extract_resources: "names", "loop", "done", "aborted"
    i,                 \* loop index: name loop while apc = "names", record loop afterwards
    pos,               \* f.tell(): the cursor of the archive file
    extracted,         \* counter extracted
    skipped,           \* counter skipped
    dirs,              \* directories that exist under output_dir
    records,           \* the records read so far, in order
    reads,             \* cursor position at which each of those records was read
    oks,               \* for each record read: did the decompression capability return
    paths,             \* for each record read: its output_path (<<>> when skipped as garbage)
    writes,            \* every file written: [rec, path, data]
    calls,             \* every call of oodle_decompress: [rec, data, size]
    \* ---- md6mesh.py ----
    options,           \* the user options: [rotate, flip_uv, flip_faces, smooth]
    input,             \* how the input file was laid out (see MeshBuffer)
    file_data,         \* main: the bytes of the input file
    part_number,       \* main: part_number
    search_offset,     \* main: search_offset
    model_data,        \* main: model_data
    next_offset,       \* main: next_offset
    mpc,               \* position of main: "extract", "transform", "write", "done", "crashed"
    decoded,           \* for each part extract_model returned: its offsets and the part
    obj_files          \* the parts written by write_obj, in order

avars == <<EXTRACT_GARBAGE, OODLE_AVAILABLE, raw_names, names, files_count, apc, i,
           pos, extracted, skipped, dirs, records, reads, oks, paths, writes, calls>>

mvars == <<options, input, file_data, part_number, search_offset, model_data,
           next_offset, mpc, decoded, obj_files>>

vars == <<avars, mvars>>

\* The converter that is not running: each specification runs one of the two programs.
NoModel == [vertices |-> <<>>, uvs |-> <<>>, faces |-> <<>>, vertex_count |-> 0,
            face_count |-> 0, has_normals |-> FALSE, normals |-> <<>>]

MeshIdle ==
    /\ options = [rotate |-> TRUE, flip_uv |-> TRUE, flip_faces |-> TRUE, smooth |-> TRUE]
    /\ input = [n |-> 0, kind |-> 0, vc |-> 0, fc |-> 0, bad |-> 0, pad |-> 0, trunc |-> 0]
    /\ file_data = <<>>
    /\ part_number = 1
    /\ search_offset = 0
    /\ model_data = NoModel
    /\ next_offset = 0
    /\ mpc = "idle"
    /\ decoded = <<>>
    /\ obj_files = <<>>

ArchiveIdle ==
    /\ EXTRACT_GARBAGE = FALSE
    /\ OODLE_AVAILABLE = FALSE
    /\ raw_names = <<>>
    /\ names = <<>>
    /\ files_count = 0
    /\ apc = "idle"
    /\ i = 0
    /\ pos = 0
    /\ extracted = 0
    /\ skipped = 0
    /\ dirs = {}
    /\ records = <<>>
    /\ reads = <<>>
    /\ oks = <<>>
    /\ paths = <<>>
    /\ writes = <<>>
    /\ calls = <<>>

\* ------------------------------------------------------------------------
\* Bounds of the model
\* ------------------------------------------------------------------------
MaxFiles == 2
MaxTokens == 3
MaxParts == 2
MaxVerts == 2
MaxFaces == 1

\* ------------------------------------------------------------------------
\* Python str operations
\* ------------------------------------------------------------------------
MatchAt(s, sub, k) ==
    /\ k + Len(sub) - 1 <= Len(s)
    /\ \A j \in 1..Len(sub) : s[k + j - 1] = sub[j]

\* s.find(sub) + 1: the first position where sub occurs, 0 when it does not
Find(s, sub) ==
    LET hits == {k \in 1..Len(s) : MatchAt(s, sub, k)}
    IN  IF hits = {} THEN 0 ELSE CHOOSE k \in hits : \A h \in hits : k <= h

\* sub in s
Contains(s, sub) == Find(s, sub) # 0

\* s.split(sep)[0]
SplitHead(s, sep) ==
    IF Find(s, sep) = 0 THEN s ELSE SubSeq(s, 1, Find(s, sep) - 1)

\* s.rfind(c) + 1 for a single character c
RFind(s, c) ==
    LET hits == {k \in 1..Len(s) : s[k] = c}
    IN  IF hits = {} THEN 0 ELSE CHOOSE k \in hits : \A h \in hits : k >= h

\* s.replace(c, r) for single characters
Replace(s, c, r) == [k \in 1..Len(s) |-> IF s[k] = c THEN r ELSE s[k]]

\* s.split('/')[-1]
LastComponent(s) == SubSeq(s, RFind(s, "/") + 1, Len(s))

TagLodgroup == <<"_", "l", "o", "d", "g", "r", "o", "u", "p", "=">>
TagStreamdb == <<"_", "s", "t", "r", "e", "a", "m", "d", "b", "=">>
TagGroup == <<"_", "g", "r", "o", "u", "p", "=">>

\* ------------------------------------------------------------------------
\* Name table resolution (extract_resources, lines 172-192)
\* ------------------------------------------------------------------------
\* a variant that removes the tag and its value but keeps what follows the next '.'
StripTagsKeepExtension(name) ==
    LET cut(s, tag) ==
            IF Find(s, tag) = 0 THEN s
            ELSE LET rest == SubSeq(s, Find(s, tag) + Len(tag), Len(s))
                 IN  SubSeq(s, 1, Find(s, tag) - 1)
                     \o (IF Find(rest, <<".">>) = 0 THEN <<>>
                         ELSE SubSeq(rest, Find(rest, <<".">>), Len(rest)))
    IN  cut(cut(cut(name, TagLodgroup), TagStreamdb), TagGroup)

StripTags(name) ==
    LET n1 == IF Contains(name, TagLodgroup) THEN SplitHead(name, TagLodgroup) ELSE name
        n2 == IF Contains(n1, TagStreamdb) THEN SplitHead(n1, TagStreamdb) ELSE n1
    IN  IF Contains(n2, TagGroup) THEN SplitHead(n2, TagGroup) ELSE n2

CollapseExtension(name) ==
    IF Contains(name, <<".">>)
    THEN LET d == RFind(name, ".")
             basename == SubSeq(name, 1, d - 1)
             extension == SubSeq(name, d + 1, Len(name))
             ext == IF Contains(extension, <<"_">>) THEN SplitHead(extension, <<"_">>)
                    ELSE extension
         IN  basename \o <<".">> \o ext
    ELSE name

sanitize_filename(name) ==
    LET n1 == Replace(name, "$", "_")
        n2 == Replace(n1, "#", "_")
        n3 == Replace(n2, "<", "_")
        n4 == Replace(n3, ">", "_")
        n5 == Replace(n4, ":", "_")
        n6 == Replace(n5, "|", "_")
        n7 == Replace(n6, "?", "_")
        n8 == Replace(n7, "*", "_")
    IN  Replace(n8, "\"", "_")

ResolveName(name) == sanitize_filename(CollapseExtension(StripTags(name)))


\* ------------------------------------------------------------------------
\* The archive file
\* ------------------------------------------------------------------------
\* Layout of the modelled archive: the offsets the header declares.
NamesOff == 120
InfoOff == 512

\* lines 205-230: the widths of the fields one iteration reads before it saves
\* current_pos (zip_flags is the 17th)
RecordFields == <<8, 8, 8, 8, 8, 8, 8, 8, 8, 8, 8, 4, 4, 8, 4, 4, 8, 8, 4, 4, 8>>

RECURSIVE SumWidths(_, _)
SumWidths(widths, n) == IF n = 0 THEN 0 ELSE SumWidths(widths, n - 1) + widths[n]

RecordSize == SumWidths(RecordFields, Len(RecordFields))
DataOff == InfoOff + RecordSize * (MaxFiles + 1)
FileLen == DataOff + 140

\* The byte of the archive at position p
Byte(p) == p % 256

\* The bytes of the archive at positions p .. p+n-1, as written in the file
FileSpan(p, n) == [k \in 1..n |-> Byte(p + k - 1)]

Min(a, b) == IF a < b THEN a ELSE b
Max(a, b) == IF a > b THEN a ELSE b

\* f.seek(p); f.read(n) of a buffered binary file: n = -1 reads to the end of the
\* file, a read never goes past the end of the file, n < -1 raises ValueError.
ReadRaises(n) == n < -1
Read(p, n) ==
    LET stop == IF n = -1 THEN FileLen ELSE Min(p + n, FileLen)
    IN  FileSpan(p, Max(stop - p, 0))

\* lines 194-197: dummy7_off after the pass over the auxiliary table
IdTableOff == 256

\* The ID-indirection table at the recomputed dummy7_off: entry k is IdTable[k + 1]
IdTable == <<0, 0, 1, 2, 3, 4, 5, 9>>

\* names_base (line 169) and the cursor after read_cstring of entry k (0-based)
NamesBase(tab) == NamesOff + 8 + 8 * Len(tab)
RECURSIVE NameOffset(_, _)
NameOffset(tab, k) == IF k = 0 THEN 0 ELSE NameOffset(tab, k - 1) + Len(tab[k]) + 1
AfterCString(tab, k) == NamesBase(tab) + NameOffset(tab, k + 1)

\* ------------------------------------------------------------------------
\* The record loop of extract_resources (lines 203-301)
\* ------------------------------------------------------------------------
Digits == <<"0", "1", "2", "3", "4", "5", "6", "7", "8", "9">>
Pow10(k) == IF k = 0 THEN 1 ELSE IF k = 1 THEN 10 ELSE IF k = 2 THEN 100
            ELSE IF k = 3 THEN 1000 ELSE IF k = 4 THEN 10000 ELSE IF k = 5 THEN 100000
            ELSE IF k = 6 THEN 1000000 ELSE 10000000

\* f"file_{i:08d}.dat"
SyntheticName(idx) ==
    <<"f", "i", "l", "e", "_">>
    \o [k \in 1..8 |-> Digits[((idx \div Pow10(8 - k)) % 10) + 1]]
    \o <<".", "d", "a", "t">>

\* lines 245-248
Filename(str2, idx) == Replace(IF str2 # <<>> THEN str2 ELSE SyntheticName(idx), "\\", "/")

GarbageThreshold == 100

\* a variant with an inclusive size threshold
is_garbage_file_inclusive(filename, size, eg) ==
    /\ ~eg
    /\ ~Contains(filename, <<"/">>) /\ ~Contains(filename, <<"\\">>)
    /\ ~Contains(filename, <<".">>)
    /\ size <= 100

\* is_garbage_file (lines 113-120); eg is the value of EXTRACT_GARBAGE
is_garbage_file(filename, size, eg) ==
    /\ ~eg
    /\ ~Contains(filename, <<"/">>) /\ ~Contains(filename, <<"\\">>)
    /\ ~Contains(filename, <<".">>)
    /\ size < GarbageThreshold

SuffixFile == <<".", "f", "i", "l", "e">>
SuffixCompressed == <<".", "c", "o", "m", "p", "r", "e", "s", "s", "e", "d">>

\* lines 254-260; the path is kept relative to output_dir, dset is the set of
\* directories that exist under output_dir
OutputPath(filename, dset) ==
    LET p1 == IF filename \in dset THEN filename \o SuffixFile ELSE filename
    IN  IF ~Contains(LastComponent(filename), <<".">>) THEN p1 \o SuffixFile ELSE p1

\* output_path.parent.mkdir(parents=True, exist_ok=True): every proper ancestor
Parents(path) == {SubSeq(path, 1, k - 1) : k \in {j \in 2..Len(path) : path[j] = "/"}}

HeaderSkip == 12

\* lines 271-277
SkipsHeader(zip_flags) == ((zip_flags \div 4) % 2 = 1) /\ (zip_flags % 2 = 0)
ActualOffset(offset, zip_flags) ==
    IF SkipsHeader(zip_flags) THEN offset + HeaderSkip ELSE offset
ActualZsize(zsize, zip_flags) ==
    IF SkipsHeader(zip_flags) THEN zsize - HeaderSkip ELSE zsize

\* decompress_oodle (lines 69-77) when OodleLZ_Decompress reports success: the
\* native library is outside the repository; its output is size bytes that are a
\* function of the input.
OodleOutput(data, size) ==
    [k \in 1..size |-> IF data = <<>> THEN 0 ELSE (data[((k - 1) % Len(data)) + 1] + 1) % 256]

\* a variant that takes the flags, not the sizes, to tell a stored payload
IsStoredByFlags(rec) == rec.zip_flags = 0

\* line 266: the payload is stored, not compressed
IsStored(rec) == rec.size = rec.zsize

\* a variant that re-reads the span the record declares
FallbackDataDeclaredSpan(rec, compressed_data) == Read(rec.offset, rec.zsize)

\* what the fallback branches write (lines 289-291 and 293-295)
FallbackData(rec, compressed_data) == compressed_data

\* a variant that has opened the output file before the capability is called
FailureWritesBoth(rec, idx, path, compressed_data) ==
    <<[rec |-> idx, path |-> path, data |-> <<>>],
      [rec |-> idx, path |-> path \o SuffixCompressed, data |-> compressed_data]>>

\* lines 287-291: the files written when oodle_decompress raises; the output file
\* is opened only after the call returned (lines 284-286)
FailureWrites(rec, idx, path, compressed_data) ==
    <<[rec |-> idx, path |-> path \o SuffixCompressed,
       data |-> FallbackData(rec, compressed_data)]>>

\* a variant without the try block around the capability call
PropagatesAll(read_raises, decompress_raises) == read_raises \/ decompress_raises

\* lines 280-291: f.read(actual_zsize) is outside the try block and its error
\* leaves extract_resources; an error of oodle_decompress is caught (line 287)
Propagates(read_raises, decompress_raises) == read_raises

\* lines 264-295: the files written and the capability calls made for one record
\* idx whose output path is path; ok tells whether oodle_decompress returns.
Payload(rec, idx, path, ok, oodle) ==
    IF IsStored(rec)
    THEN [raised |-> FALSE, calls |-> <<>>,
          writes |-> <<[rec |-> idx, path |-> path, data |-> Read(rec.offset, rec.size)]>>]
    ELSE LET actual_offset == ActualOffset(rec.offset, rec.zip_flags)
             actual_zsize == ActualZsize(rec.zsize, rec.zip_flags)
             compressed_data == Read(actual_offset, actual_zsize)
             read_raises == ReadRaises(actual_zsize)
             call == [rec |-> idx, data |-> compressed_data, size |-> rec.size]
         IN  IF Propagates(read_raises, ~read_raises /\ oodle /\ ~ok)
             THEN [raised |-> TRUE, calls |-> IF read_raises THEN <<>> ELSE <<call>>,
                   writes |-> <<>>]
             ELSE IF oodle
             THEN [raised |-> FALSE,
                   calls |-> <<call>>,
                   writes |-> IF ok
                              THEN <<[rec |-> idx, path |-> path,
                                      data |-> OodleOutput(compressed_data, rec.size)]>>
                              ELSE FailureWrites(rec, idx, path, compressed_data)]
             ELSE [raised |-> FALSE, calls |-> <<>>,
                   writes |-> <<[rec |-> idx, path |-> path \o SuffixCompressed,
                                 data |-> FallbackData(rec, compressed_data)]>>]

\* a variant that leaves the cursor where the last read ended
RestoreCursorSkipped(current_pos, payload_end) == payload_end

\* f.seek(current_pos) (lines 243 and 297): the cursor the iteration leaves behind;
\* payload_end is where the cursor was, after the table lookup or the payload read
RestoreCursor(current_pos, payload_end) == current_pos

\* One iteration of the record loop (lines 204-298) for record rec, read with the
\* cursor at cur, as iteration idx, with the directories dset existing.
Iteration(rec, idx, cur, dset, ok, eg, oodle, tab) ==
    LET current_pos == cur + RecordSize
        name_idx == (rec.name_id + 1) * 8 + IdTableOff
        name_str_id == IdTable[(name_idx - IdTableOff) \div 8 + 1]
        str2 == IF name_str_id < Len(tab) THEN tab[name_str_id + 1] ELSE <<>>
        filename == Filename(str2, idx)
        output_path == OutputPath(filename, dset)
        pay == Payload(rec, idx, output_path, ok, oodle)
    IN  IF is_garbage_file(filename, rec.size, eg)
        THEN [apc |-> "loop", pos |-> RestoreCursor(current_pos, name_idx + 8),
              extracted |-> 0, skipped |-> 1,
              dirs |-> dset, writes |-> <<>>, calls |-> <<>>, output_path |-> <<>>]
        ELSE IF pay.raised
        THEN [apc |-> "aborted", pos |-> ActualOffset(rec.offset, rec.zip_flags),
              extracted |-> 0, skipped |-> 0,
              dirs |-> dset \cup Parents(output_path), writes |-> <<>>,
              calls |-> pay.calls, output_path |-> output_path]
        ELSE [apc |-> "loop",
              pos |-> RestoreCursor(current_pos, rec.offset + rec.zsize),
              extracted |-> 1, skipped |-> 0,
              dirs |-> dset \cup Parents(output_path),
              writes |-> pay.writes, calls |-> pay.calls, output_path |-> output_path]

\* ------------------------------------------------------------------------
\* Inputs: the archives the model runs on
\* ------------------------------------------------------------------------
\* The name table of the archives of ArchiveSpec:
\*   0 "a"  1 "d/b"  2 "c.x_m"  3 "d"  4 ""  5 "w\z"
ArchiveNames ==
    << <<"a">>, <<"d", "/", "b">>, <<"c", ".", "x", "_", "m">>, <<"d">>, <<>>,
       <<"w", "\\", "z">> >>

Rec(nid, off, z, s, fl) ==
    [type_id |-> 0, name_id |-> nid, offset |-> DataOff + off, zsize |-> z, size |-> s,
     zip_flags |-> fl]

\* The records a slot of the record table can hold
RecordPool ==
    { Rec(0, 0, 50, 50, 0), Rec(0, 1, 100, 100, 0), Rec(0, 2, 99, 99, 4),
      Rec(0, 3, 14, 50, 4), Rec(0, 4, 14, 100, 4), Rec(0, 5, 14, 99, 0),
      Rec(1, 6, 50, 50, 5), Rec(1, 7, 14, 50, 4),
      Rec(2, 8, 14, 100, 5), Rec(2, 0, 13, 13, 4),
      Rec(3, 1, 100, 100, 1), Rec(3, 2, 20, 50, 4), Rec(3, 3, 50, 50, 0),
      Rec(4, 4, 50, 50, 0),
      Rec(5, 5, 50, 50, 0), Rec(5, 6, 5, 50, 4),
      Rec(6, 7, 11, 50, 4), Rec(6, 8, 14, 50, 4) }

\* ------------------------------------------------------------------------
\* extract_resources as a state machine
\* ------------------------------------------------------------------------
ArchiveInitWith(tab) ==
    /\ EXTRACT_GARBAGE \in BOOLEAN
    /\ OODLE_AVAILABLE \in BOOLEAN
    /\ raw_names = tab
    /\ names = [k \in 1..Len(tab) |-> <<>>]
    /\ files_count \in 0..MaxFiles
    /\ apc = "names"
    /\ i = 0
    /\ pos = NamesBase(tab)
    /\ extracted = 0
    /\ skipped = 0
    /\ dirs = {}
    /\ records = <<>>
    /\ reads = <<>>
    /\ oks = <<>>
    /\ paths = <<>>
    /\ writes = <<>>
    /\ calls = <<>>
    /\ MeshIdle

ArchiveInit == ArchiveInitWith(ArchiveNames)

\* one iteration of the name loop (lines 172-192)
ReadName ==
    /\ apc = "names"
    /\ i < Len(raw_names)
    /\ names' = [names EXCEPT ![i + 1] = ResolveName(raw_names[i + 1])]
    /\ pos' = AfterCString(raw_names, i)
    /\ i' = i + 1
    /\ UNCHANGED <<EXTRACT_GARBAGE, OODLE_AVAILABLE, raw_names, files_count, apc,
                   extracted, skipped, dirs, records, reads, oks, paths, writes, calls>>
    /\ UNCHANGED mvars

\* lines 194-201: the auxiliary-table pass, then f.seek(info_off)
SeekInfo ==
    /\ apc = "names"
    /\ i = Len(raw_names)
    /\ apc' = "loop"
    /\ i' = 0
    /\ pos' = InfoOff
    /\ extracted' = 0
    /\ skipped' = 0
    /\ UNCHANGED <<EXTRACT_GARBAGE, OODLE_AVAILABLE, raw_names, names, files_count,
                   dirs, records, reads, oks, paths, writes, calls>>
    /\ UNCHANGED mvars

\* one iteration of the record loop (lines 203-301)
ExtractRecord ==
    /\ apc = "loop"
    /\ i < files_count
    /\ \E rec \in RecordPool, ok \in BOOLEAN :
         /\ LET r == Iteration(rec, i, pos, dirs, ok, EXTRACT_GARBAGE, OODLE_AVAILABLE,
                               names)
            IN  /\ (r.calls = <<>> => ok)
                /\ apc' = r.apc
                /\ pos' = r.pos
                /\ extracted' = extracted + r.extracted
                /\ skipped' = skipped + r.skipped
                /\ dirs' = r.dirs
                /\ writes' = writes \o r.writes
                /\ calls' = calls \o r.calls
                /\ i' = IF r.apc = "loop" THEN i + 1 ELSE i
         /\ records' = Append(records, rec)
         /\ reads' = Append(reads, pos)
         /\ oks' = Append(oks, ok)
         /\ paths' = Append(paths, Iteration(rec, i, pos, dirs, ok, EXTRACT_GARBAGE,
                                             OODLE_AVAILABLE, names).output_path)
    /\ UNCHANGED <<EXTRACT_GARBAGE, OODLE_AVAILABLE, raw_names, names, files_count>>
    /\ UNCHANGED mvars

\* the loop ends (line 303)
Finish ==
    /\ apc = "loop"
    /\ i = files_count
    /\ apc' = "done"
    /\ UNCHANGED <<EXTRACT_GARBAGE, OODLE_AVAILABLE, raw_names, names, files_count, i,
                   pos, extracted, skipped, dirs, records, reads, oks, paths, writes, calls>>
    /\ UNCHANGED mvars

ArchiveNext == ReadName \/ SeekInfo \/ ExtractRecord \/ Finish

ArchiveSpec == ArchiveInit /\ [][ArchiveNext]_vars

\* ------------------------------------------------------------------------
\* The name loop alone, over a wide set of raw names
\* ------------------------------------------------------------------------
ForbiddenChars == {"$", "#", "<", ">", ":", "|", "?", "*", "\""}

Tokens ==
    { <<"a">>, <<".">>, <<"_">>, <<"#">>, <<"/">>, <<"=">>,
      <<"$", "#", "<", ">", ":", "|", "?", "*", "\"">>,
      TagLodgroup, TagStreamdb, TagGroup }

RECURSIVE TokenNames(_)
TokenNames(n) ==
    IF n = 0 THEN {<<>>}
    ELSE TokenNames(n - 1) \cup {s \o t : s \in TokenNames(n - 1), t \in Tokens}

\* "foo#bar.tex_medium" and "model_lodgroup=3.mesh"
ExampleTex ==
    <<"f", "o", "o", "#", "b", "a", "r", ".", "t", "e", "x", "_", "m", "e", "d", "i", "u", "m">>
ExampleMesh == <<"m", "o", "d", "e", "l">> \o TagLodgroup \o <<"3", ".", "m", "e", "s", "h">>

NameInputs == TokenNames(MaxTokens) \cup {ExampleTex, ExampleMesh}

NameInit ==
    /\ EXTRACT_GARBAGE = FALSE
    /\ OODLE_AVAILABLE = FALSE
    /\ \E n \in NameInputs : raw_names = <<n>>
    /\ names = <<<<>>>>
    /\ files_count = 0
    /\ apc = "names"
    /\ i = 0
    /\ pos = NamesBase(raw_names)
    /\ extracted = 0
    /\ skipped = 0
    /\ dirs = {}
    /\ records = <<>>
    /\ reads = <<>>
    /\ oks = <<>>
    /\ paths = <<>>
    /\ writes = <<>>
    /\ calls = <<>>
    /\ MeshIdle

NameNext == ReadName

NameSpec == NameInit /\ [][NameNext]_vars

\* ========================================================================
\* Properties of extract_resources
\* ========================================================================
Range(seq) == {seq[k] : k \in 1..Len(seq)}

\* the files written and the capability calls made for the j-th record read
WritesOf(j) == SelectSeq(writes, LAMBDA w : w.rec = j - 1)
CallsOf(j) == SelectSeq(calls, LAMBDA c : c.rec = j - 1)

\* the iteration of the j-th record read ran to its end (it did not abort the run)
Completed(j) == j \in 1..Len(records) /\ ~(apc = "aborted" /\ j = Len(records))
SkippedAsGarbage(j) == paths[j] = <<>>
\* the capability was called for the j-th record and raised
DecompressFailed(j) == CallsOf(j) # <<>> /\ ~oks[j]
\* the 12-byte header skip applies to the j-th record: bit 4 set, bit 1 clear
HeaderSkipApplies(j) ==
    /\ records[j].size # records[j].zsize
    /\ (records[j].zip_flags \div 4) % 2 = 1
    /\ records[j].zip_flags % 2 = 0

HeaderSkipFailure(j) == Completed(j) /\ HeaderSkipApplies(j) /\ DecompressFailed(j)

\* C1 as stated: when the capability raises on a record with the header skip, the
\* '.compressed' file holds the unadjusted span, the zsize bytes at the declared offset.
C1_DeclaredSpanWritten ==
    \A j \in 1..Len(records) :
        HeaderSkipFailure(j) =>
            \E w \in Range(WritesOf(j)) :
                /\ w.path = paths[j] \o SuffixCompressed
                /\ w.data = FileSpan(records[j].offset, records[j].zsize)

\* C1, amended: when the capability raises on a record with the header skip, the
\* '.compressed' file holds exactly the bytes that were handed to the capability,
\* which for zsize >= 12 are the zsize-12 bytes starting at offset+12.
C1_AdjustedSpanWritten ==
    \A j \in 1..Len(records) :
        HeaderSkipFailure(j) =>
            /\ Len(CallsOf(j)) = 1
            /\ WritesOf(j) = <<[rec |-> j - 1, path |-> paths[j] \o SuffixCompressed,
                                data |-> CallsOf(j)[1].data]>>
            /\ records[j].zsize >= 12 =>
                   CallsOf(j)[1].data = FileSpan(records[j].offset + 12, records[j].zsize - 12)

C1_Witness ==
    \E j \in 1..Len(records) :
        HeaderSkipFailure(j) /\ records[j].zsize > 12 /\ Len(WritesOf(j)) = 1

\* C2 as stated: a record that is not garbage gets exactly one file when it is stored
\* or decompresses, and exactly two (its output path and the '.compressed' file) when
\* decompression fails.
C2_TwoFilesOnFailure ==
    \A j \in 1..Len(records) :
        (Completed(j) /\ ~SkippedAsGarbage(j)) =>
            IF DecompressFailed(j)
            THEN /\ Len(WritesOf(j)) = 2
                 /\ {w.path : w \in Range(WritesOf(j))}
                        = {paths[j], paths[j] \o SuffixCompressed}
            ELSE Len(WritesOf(j)) = 1

\* C2, amended: a record that is not garbage and whose iteration runs to its end gets
\* exactly one file: its output path when it is stored or decompresses, and only the
\* '.compressed' file when decompression fails or no capability is loaded. A record
\* skipped as garbage gets none.
C2_OneFilePerRecord ==
    \A j \in 1..Len(records) :
        /\ (Completed(j) /\ ~SkippedAsGarbage(j)) =>
               /\ Len(WritesOf(j)) = 1
               /\ WritesOf(j)[1].path =
                      IF records[j].size = records[j].zsize \/ (CallsOf(j) # <<>> /\ oks[j])
                      THEN paths[j]
                      ELSE paths[j] \o SuffixCompressed
        /\ (~Completed(j) \/ SkippedAsGarbage(j)) => WritesOf(j) = <<>>

C2_Witness ==
    \E j \in 1..Len(records) :
        /\ Completed(j) /\ DecompressFailed(j)
        /\ Len(WritesOf(j)) = 1
        /\ WritesOf(j)[1].path = paths[j] \o SuffixCompressed

\* The run in which the capability returns for every record: the state after the
\* first k of the records read.
RECURSIVE RefRun(_)
RefRun(k) ==
    IF k = 0
    THEN [apc |-> "loop", i |-> 0, pos |-> InfoOff, extracted |-> 0, skipped |-> 0,
          dirs |-> {}, writes |-> <<>>, paths |-> <<>>]
    ELSE LET st == RefRun(k - 1)
             r == Iteration(records[k], st.i, st.pos, st.dirs, TRUE, EXTRACT_GARBAGE,
                            OODLE_AVAILABLE, names)
         IN  IF st.apc # "loop" THEN st
             ELSE [apc |-> r.apc, i |-> IF r.apc = "loop" THEN st.i + 1 ELSE st.i,
                   pos |-> r.pos, extracted |-> st.extracted + r.extracted,
                   skipped |-> st.skipped + r.skipped, dirs |-> r.dirs,
                   writes |-> st.writes \o r.writes,
                   paths |-> Append(st.paths, r.output_path)]

\* C3: a decompression failure does not abort the run and changes nothing for the
\* later records: every record is read from its own slot, the loop state and every
\* record's output path are those of the run in which the capability never raises,
\* every record that did not fail itself writes the same files as in that run, and a
\* run that ends has done all files_count iterations.
C3_FailureIsLocal ==
    apc \in {"loop", "done", "aborted"} =>
        LET ref == RefRun(Len(records))
        IN  /\ (apc = "aborted") = (ref.apc = "aborted")
            /\ apc = "aborted" =>
                   records[Len(records)].zsize - 12 < -1
            /\ i = ref.i /\ pos = ref.pos
            /\ extracted = ref.extracted /\ skipped = ref.skipped
            /\ dirs = ref.dirs
            /\ paths = ref.paths
            /\ \A j \in 1..Len(records) :
                   /\ reads[j] = InfoOff + 144 * (j - 1)
                   /\ ~DecompressFailed(j) =>
                          WritesOf(j) = SelectSeq(ref.writes, LAMBDA w : w.rec = j - 1)
            /\ apc = "done" => (i = files_count /\ Len(records) = files_count)

C3_Witness ==
    /\ apc = "done"
    /\ \E j, k \in 1..Len(records) :
           /\ j < k
           /\ DecompressFailed(j)
           /\ ~DecompressFailed(k) /\ WritesOf(k) # <<>>

\* C5 as stated: every record with zsize = size has its size bytes written to its
\* output path, and the capability is not called for it.
C5_EveryStoredRecordCopied ==
    \A j \in 1..Len(records) :
        (Completed(j) /\ records[j].size = records[j].zsize) =>
            /\ \E w \in Range(WritesOf(j)) :
                   w.data = FileSpan(records[j].offset, records[j].size)
            /\ CallsOf(j) = <<>>

\* C5, amended: every record with zsize = size that is not skipped as garbage has
\* exactly the size bytes at its payload offset written to its output path and to
\* no other file, and the capability is not called for it, loaded or not.
C5_StoredCopiedVerbatim ==
    \A j \in 1..Len(records) :
        (Completed(j) /\ records[j].size = records[j].zsize) =>
            /\ CallsOf(j) = <<>>
            /\ IF SkippedAsGarbage(j)
               THEN WritesOf(j) = <<>>
               ELSE WritesOf(j) = <<[rec |-> j - 1, path |-> paths[j],
                                     data |-> FileSpan(records[j].offset, records[j].size)]>>

C5_Witness ==
    /\ OODLE_AVAILABLE
    /\ \E j \in 1..Len(records) :
           /\ Completed(j) /\ records[j].size = records[j].zsize
           /\ records[j].zip_flags # 0
           /\ Len(WritesOf(j)) = 1

\* the name resolved for the j-th record read: the name-table entry the ID table
\* points to, or the synthesized name when there is none
NameOfRecord(j) ==
    LET sid == IdTable[records[j].name_id + 2]
        str2 == IF sid < Len(names) THEN names[sid + 1] ELSE <<>>
    IN  IF str2 = <<>> THEN SyntheticName(j - 1) ELSE str2

LooksLikeGarbage(j) ==
    /\ \A k \in 1..Len(NameOfRecord(j)) : NameOfRecord(j)[k] \notin {"/", "\\", "."}
    /\ records[j].size < 100

\* C6: with filtering enabled a record is skipped (no file, skip counter incremented,
\* extracted counter not) exactly when its name has no '/' or '\', no '.', and its
\* size is below 100; with filtering disabled no record is skipped.
C6_GarbageExactly ==
    apc \in {"loop", "done", "aborted"} =>
        /\ \A j \in 1..Len(records) :
               /\ SkippedAsGarbage(j) = (~EXTRACT_GARBAGE /\ LooksLikeGarbage(j))
               /\ SkippedAsGarbage(j) => WritesOf(j) = <<>>
               /\ (Completed(j) /\ ~SkippedAsGarbage(j)) => WritesOf(j) # <<>>
        /\ skipped = Cardinality({j \in 1..Len(records) : SkippedAsGarbage(j)})
        /\ extracted =
               Cardinality({j \in 1..Len(records) : Completed(j) /\ ~SkippedAsGarbage(j)})

C6_Witness ==
    /\ ~EXTRACT_GARBAGE
    /\ \E j, k \in 1..Len(records) :
           /\ SkippedAsGarbage(j) /\ records[j].size = 50 /\ NameOfRecord(j) = <<"a">>
           /\ ~SkippedAsGarbage(k) /\ records[k].size = 100 /\ NameOfRecord(k) = <<"a">>
    /\ skipped = 1 /\ extracted = 1

\* ========================================================================
\* Properties of the name loop
\* ========================================================================
Resolved(k) == apc = "names" /\ k \in 1..i

\* C4 as stated: "foo#bar.tex_medium" resolves to "foo_bar.tex" and
\* "model_lodgroup=3.mesh" to "model.mesh".
C4_ExtensionKept ==
    \A k \in 1..Len(raw_names) :
        Resolved(k) =>
            /\ raw_names[k] = ExampleTex =>
                   names[k] = <<"f", "o", "o", "_", "b", "a", "r", ".", "t", "e", "x">>
            /\ raw_names[k] = ExampleMesh =>
                   names[k] = <<"m", "o", "d", "e", "l", ".", "m", "e", "s", "h">>

\* where the first '_lodgroup=', '_streamdb=' or '_group=' tag of s starts (0: none)
FirstTag(s) ==
    LET hits == {p \in 1..Len(s) :
                    \E t \in {TagLodgroup, TagStreamdb, TagGroup} : MatchAt(s, t, p)}
    IN  IF hits = {} THEN 0 ELSE CHOOSE p \in hits : \A h \in hits : p <= h

\* C4, amended: "foo#bar.tex_medium" resolves to "foo_bar.tex" and
\* "model_lodgroup=3.mesh" to "model"; in general the name is cut where its first tag
\* starts (an extension after the tag is lost), then what follows the last '.' of the
\* rest is cut at its first '_', then each of $ # < > : | ? * " becomes '_'.
C4_TagCutsName ==
    \A k \in 1..Len(raw_names) :
        Resolved(k) =>
            LET raw == raw_names[k]
                head == IF FirstTag(raw) = 0 THEN raw ELSE SubSeq(raw, 1, FirstTag(raw) - 1)
                dots == {p \in 1..Len(head) : head[p] = "."}
                dot == CHOOSE p \in dots : \A q \in dots : q <= p
                unders == {p \in 1..Len(head) : p > dot /\ head[p] = "_"}
                keep == IF dots = {} \/ unders = {} THEN Len(head)
                        ELSE (CHOOSE p \in unders : \A q \in unders : p <= q) - 1
            IN  /\ raw = ExampleTex =>
                       names[k] = <<"f", "o", "o", "_", "b", "a", "r", ".", "t", "e", "x">>
                /\ raw = ExampleMesh => names[k] = <<"m", "o", "d", "e", "l">>
                /\ Len(names[k]) = keep
                /\ \A p \in 1..keep :
                       names[k][p] = IF head[p] \in ForbiddenChars THEN "_" ELSE head[p]

C4_Witness ==
    /\ Resolved(1)
    /\ raw_names[1] = ExampleMesh
    /\ names[1] = <<"m", "o", "d", "e", "l">>

\* C11: every iteration of the record loop starts with the cursor at
\* info_off + 144 * i, whatever the earlier iterations did (garbage skip, stored
\* copy, decompression, either fallback), and extracted + skipped = i at every
\* iteration boundary, so extracted + skipped = files_count when the loop has ended;
\* skipped counts the records skipped as garbage and extracted the others.
C11_CursorAndCounters ==
    apc \in {"loop", "done", "aborted"} =>
        /\ \A j \in 1..Len(records) : reads[j] = InfoOff + 144 * (j - 1)
        /\ apc = "loop" =>
               /\ i <= files_count /\ Len(records) = i
               /\ pos = InfoOff + 144 * i
        /\ extracted + skipped = i
        /\ skipped = Cardinality({j \in 1..Len(records) :
                                     Completed(j) /\ SkippedAsGarbage(j)})
        /\ extracted = Cardinality({j \in 1..Len(records) :
                                       Completed(j) /\ ~SkippedAsGarbage(j)})
        /\ apc = "done" =>
               /\ i = files_count
               /\ extracted + skipped = files_count
               /\ pos = InfoOff + 144 * files_count
        /\ apc = "aborted" => i = Len(records) - 1

C11_Witness ==
    /\ apc = "done" /\ files_count = 2
    /\ SkippedAsGarbage(1)
    /\ DecompressFailed(2) /\ WritesOf(2) # <<>>
    /\ reads[2] = InfoOff + 144
    /\ extracted = 1 /\ skipped = 1

\* ========================================================================
\* md6mesh.py
\* ========================================================================
HEADER_SIZE == 64
BUFFER_MARKERS == << <<1, 1, 0, 0, 0, 0, 0, 0>>, <<1, 1, 0, 0, 0, 16, 0, 0>> >>
SKIP_TO_VERTEX_COUNT == 19
SKIP_TO_FACE_COUNT == 2
SKIP_TO_FIRST_VERTEX == 26
VERTEX_STRIDE == 48
FaceSize == 6

RECURSIVE Pow2(_)
Pow2(k) == IF k = 0 THEN 1 ELSE 2 * Pow2(k - 1)

\* data[offset:offset+n] has n bytes
CanRead(data, offset, n) == offset + n <= Len(data)

\* read_int16_le (lines 24-26): struct.unpack('<H', ...), defined when CanRead
read_int16_le(data, offset) == data[offset + 1] + 256 * data[offset + 2]

\* struct.unpack('<f', b): the IEEE 754 single the four bytes encode. The model
\* carries the floats that are integers of magnitude below 2^11 (as that integer);
\* any other bit pattern is outside the inputs of the model.
F32(b0, b1, b2, b3) ==
    LET sign == b3 \div 128
        exp == (b3 % 128) * 2 + b2 \div 128
        mant == (b2 % 128) * 65536 + b1 * 256 + b0
        sig == 8388608 + mant
    IN  IF exp = 0 /\ mant = 0 THEN 0
        ELSE IF exp >= 127 /\ exp <= 137 /\ sig % Pow2(150 - exp) = 0
        THEN (IF sign = 1 THEN -1 ELSE 1) * (sig \div Pow2(150 - exp))
        ELSE "not an integer"

\* read_float_le (lines 28-30), defined when CanRead
read_float_le(data, offset) ==
    F32(data[offset + 1], data[offset + 2], data[offset + 3], data[offset + 4])

\* rotate_x_minus_90 (lines 32-39)
rotate_x_minus_90(vertices) ==
    [k \in 1..Len(vertices) |-> <<vertices[k][1], vertices[k][3], 0 - vertices[k][2]>>]

\* flip_uvs (lines 41-42)
flip_uvs(uvs) == [k \in 1..Len(uvs) |-> <<uvs[k][1], 1 - uvs[k][2]>>]

\* flip_faces (lines 44-45)
flip_faces(faces) == [k \in 1..Len(faces) |-> <<faces[k][1], faces[k][3], faces[k][2]>>]

\* Below, CHOOSE r \in {F(v) : v \in {x}} : TRUE is F(x) with x evaluated once: a
\* local variable that is assigned and then read.

\* lines 51-60: the cross product of the two edges of a face
FaceNormal(vertices, face) ==
    LET edges(v) == << <<v[2][1] - v[1][1], v[2][2] - v[1][2], v[2][3] - v[1][3]>>,
                       <<v[3][1] - v[1][1], v[3][2] - v[1][2], v[3][3] - v[1][3]>> >>
        cross(e) == <<e[1][2] * e[2][3] - e[1][3] * e[2][2],
                      e[1][3] * e[2][1] - e[1][1] * e[2][3],
                      e[1][1] * e[2][2] - e[1][2] * e[2][1]>>
    IN  CHOOSE r \in {cross(e) : e \in {edges(v) : v \in
                 {<<vertices[face[1] + 1], vertices[face[2] + 1], vertices[face[3] + 1]>>}}} :
            TRUE

\* lines 62-65: what the faces add to the normal of vertex idx; a face adds its
\* normal once for every corner that is idx
RECURSIVE Accumulated(_, _, _, _)
Accumulated(vertices, faces, idx, k) ==
    IF k = 0 THEN <<0, 0, 0>>
    ELSE LET times == Cardinality({c \in 1..3 : faces[k][c] = idx})
             add(an) == <<an[1][1] + times * an[2][1], an[1][2] + times * an[2][2],
                          an[1][3] + times * an[2][3]>>
         IN  CHOOSE r \in {add(an) : an \in {<<Accumulated(vertices, faces, idx, k - 1),
                                                 FaceNormal(vertices, faces[k])>>}} : TRUE

\* vertices[face[c]] raises IndexError for some face
NormalsRaise(vertices, faces) ==
    \E k \in 1..Len(faces) : \E c \in 1..3 : faces[k][c] >= Len(vertices)

\* calculate_vertex_normals (lines 47-75), defined when not NormalsRaise. A normal
\* n / sqrt(n.n) is kept as [num |-> n, den2 |-> n.n]; (0, 0, 1) is [<<0,0,1>>, 1].
calculate_vertex_normals(vertices, faces) ==
    LET len2(n) == n[1] * n[1] + n[2] * n[2] + n[3] * n[3]
        normalized(n) == IF len2(n) > 0 THEN [num |-> n, den2 |-> len2(n)]
                         ELSE [num |-> <<0, 0, 1>>, den2 |-> 1]
    IN  [v \in 1..Len(vertices) |->
            CHOOSE r \in {normalized(n) :
                              n \in {Accumulated(vertices, faces, v - 1, Len(faces))}} : TRUE]

\* apply_transforms (lines 77-98), defined when it does not raise
TransformsRaise(md, opt) ==
    opt.smooth /\ NormalsRaise(md.vertices,
                               IF opt.flip_faces THEN flip_faces(md.faces) ELSE md.faces)

apply_transforms(md, opt) ==
    LET vertices == IF opt.rotate THEN rotate_x_minus_90(md.vertices) ELSE md.vertices
        uvs == IF opt.flip_uv THEN flip_uvs(md.uvs) ELSE md.uvs
        faces == IF opt.flip_faces THEN flip_faces(md.faces) ELSE md.faces
    IN  [vertices |-> vertices, uvs |-> uvs, faces |-> faces,
         vertex_count |-> md.vertex_count, face_count |-> md.face_count,
         has_normals |-> opt.smooth,
         normals |-> IF opt.smooth THEN calculate_vertex_normals(vertices, faces) ELSE <<>>]

\* line 101: marker_len, the length of one marker
MarkerBytes == Len(BUFFER_MARKERS[1])

\* find_buffer_marker (lines 100-108): the offset of the first marker at or after
\* start_offset, -1 when there is none
find_buffer_marker(data, start_offset) ==
    LET marker_len == MarkerBytes
        hits == {o \in start_offset..(Len(data) - marker_len) :
                    \E mk \in 1..Len(BUFFER_MARKERS) :
                        \A b \in 1..marker_len : data[o + b] = BUFFER_MARKERS[mk][b]}
    IN  IF hits = {} THEN -1 ELSE CHOOSE o \in hits : \A h \in hits : o <= h

\* line 122: len(BUFFER_MARKERS), the number of markers in the tuple
MarkerSkip == Len(BUFFER_MARKERS)

\* a variant that resumes at the marker it decoded
ResumeAtMarker(marker_offset, face_offset, face_count) == marker_offset

\* a variant that resumes one byte before the end of the face records
ResumeInsideFaces(marker_offset, face_offset, face_count) ==
    face_offset + FaceSize * face_count - 1

\* lines 168-187: the offset extract_model returns, after the last face record
ResumeOffset(marker_offset, face_offset, face_count) == face_offset + FaceSize * face_count

\* extract_model (lines 110-187): [kind |-> "none"] when no marker is found,
\* [kind |-> "error"] when a read is out of bounds (struct.error), else the part,
\* the offsets it was read at and the offset to resume at. find_buffer_marker is
\* called once (line 118) and the rest is decoded from the offset it returned.
extract_model(data, start_search_offset) ==
    LET decode_at(marker_offset) ==
            LET vc_offset == marker_offset + MarkerSkip + SKIP_TO_VERTEX_COUNT
                vertex_count == read_int16_le(data, vc_offset)
                fc_offset == vc_offset + 2 + SKIP_TO_FACE_COUNT
                face_count == read_int16_le(data, fc_offset)
                first_vertex == fc_offset + 2 + SKIP_TO_FIRST_VERTEX
                vertex_at(k) == first_vertex + VERTEX_STRIDE * (k - 1)
                face_offset == first_vertex + VERTEX_STRIDE * vertex_count
                face_at(k) == face_offset + FaceSize * (k - 1)
            IN  IF marker_offset = -1 THEN [kind |-> "none"]
                ELSE IF ~CanRead(data, vc_offset, 2) \/ ~CanRead(data, fc_offset, 2)
                THEN [kind |-> "error"]
                ELSE IF \/ \E k \in 1..vertex_count : ~CanRead(data, vertex_at(k) + 16, 4)
                        \/ \E k \in 1..face_count : ~CanRead(data, face_at(k) + 4, 2)
                THEN [kind |-> "error"]
                ELSE [kind |-> "part",
                      marker_offset |-> marker_offset,
                      vc_offset |-> vc_offset,
                      fc_offset |-> fc_offset,
                      first_vertex |-> first_vertex,
                      face_offset |-> face_offset,
                      offset |-> ResumeOffset(marker_offset, face_offset, face_count),
                      model |->
                        [vertices |-> [k \in 1..vertex_count |->
                                          <<read_float_le(data, vertex_at(k)),
                                            read_float_le(data, vertex_at(k) + 4),
                                            read_float_le(data, vertex_at(k) + 8)>>],
                         uvs |-> [k \in 1..vertex_count |->
                                     <<read_float_le(data, vertex_at(k) + 12),
                                       read_float_le(data, vertex_at(k) + 16)>>],
                         faces |-> [k \in 1..face_count |->
                                       <<read_int16_le(data, face_at(k)),
                                         read_int16_le(data, face_at(k) + 2),
                                         read_int16_le(data, face_at(k) + 4)>>],
                         vertex_count |-> vertex_count,
                         face_count |-> face_count,
                         has_normals |-> FALSE,
                         normals |-> <<>>]]
    IN  CHOOSE r \in {decode_at(m) : m \in {find_buffer_marker(data, start_search_offset)}} :
            TRUE

\* ------------------------------------------------------------------------
\* Inputs: the .bmd6model files the model runs on
\* ------------------------------------------------------------------------
\* A file is a 64-byte header followed by input.n parts laid out the way
\* extract_model reads them. Part p has PartVc vertices and PartFc faces; the marker
\* alternates between the two BUFFER_MARKERS, starting with input.kind; part
\* input.bad (if any) ends with a face whose third index is out of range;
\* input.pad filler bytes precede every part (and, when nonzero, the header holds a
\* marker too); the last input.trunc bytes of the file are missing.
PartVc(d, p) == (d.vc + p - 1) % (MaxVerts + 1)
PartFc(d, p) == (d.fc + p - 1) % (MaxFaces + 1)

MeshInputs ==
    {d \in [n : 0..MaxParts, kind : 0..1, vc : 0..MaxVerts, fc : 0..MaxFaces,
            bad : 0..MaxParts, pad : {0, 3}, trunc : {0, 3}] :
        /\ d.bad <= d.n
        /\ d.bad # 0 => PartFc(d, d.bad) > 0
        /\ d.n = 0 => (d.kind = 0 /\ d.vc = 0 /\ d.fc = 0)}

Filler == 238
Fill(n) == [k \in 1..n |-> Filler]
LE16(v) == <<v % 256, v \div 256>>

\* the four bytes of the IEEE 754 single of the integer v >= 0
EncF(v) ==
    IF v = 0 THEN <<0, 0, 0, 0>>
    ELSE LET e == CHOOSE k \in 0..10 : Pow2(k) <= v /\ v < Pow2(k + 1)
             exp == 127 + e
             mant == (v - Pow2(e)) * Pow2(23 - e)
         IN  <<mant % 256, (mant \div 256) % 256, (exp % 2) * 128 + mant \div 65536,
               exp \div 2>>

VertexOf(j) == <<j % 2, (j \div 2) % 2, j \div 4>>
UvOf(j) == <<j % 2, j>>
FaceOf(d, p, f) ==
    LET vc == PartVc(d, p)
    IN  IF vc = 0 THEN <<0, 0, 0>>
        ELSE <<f % vc, (f + 1) % vc,
               IF d.bad = p /\ f = PartFc(d, p) - 1 THEN vc ELSE (f + 2) % vc>>

\* every face of part p names vertices of the part
WellFormedPart(d, p) == PartFc(d, p) = 0 \/ (PartVc(d, p) > 0 /\ d.bad # p)

RECURSIVE VertexBytes(_)
VertexBytes(n) ==
    IF n = 0 THEN <<>>
    ELSE VertexBytes(n - 1)
         \o EncF(VertexOf(n - 1)[1]) \o EncF(VertexOf(n - 1)[2]) \o EncF(VertexOf(n - 1)[3])
         \o EncF(UvOf(n - 1)[1]) \o EncF(UvOf(n - 1)[2])
         \o Fill(VERTEX_STRIDE - 20)

RECURSIVE FaceBytes(_, _, _)
FaceBytes(d, p, n) ==
    IF n = 0 THEN <<>>
    ELSE FaceBytes(d, p, n - 1)
         \o LE16(FaceOf(d, p, n - 1)[1]) \o LE16(FaceOf(d, p, n - 1)[2])
         \o LE16(FaceOf(d, p, n - 1)[3])

PartBytes(d, p) ==
    BUFFER_MARKERS[((d.kind + p - 1) % 2) + 1]
    \o Fill(13) \o LE16(PartVc(d, p))
    \o Fill(2) \o LE16(PartFc(d, p))
    \o LE16(PartVc(d, p) + 1) \o Fill(2) \o LE16(PartFc(d, p) + 1)
    \o Fill(20)
    \o VertexBytes(PartVc(d, p))
    \o FaceBytes(d, p, PartFc(d, p))

RECURSIVE PartsBytes(_, _)
PartsBytes(d, n) ==
    IF n = 0 THEN <<>> ELSE PartsBytes(d, n - 1) \o Fill(d.pad) \o PartBytes(d, n)

MeshBuffer(d) ==
    LET header == IF d.pad = 0 THEN Fill(HEADER_SIZE)
                  ELSE Fill(8) \o BUFFER_MARKERS[1] \o Fill(HEADER_SIZE - 16)
        whole == header \o PartsBytes(d, d.n)
    IN  SubSeq(whole, 1, Len(whole) - d.trunc)

\* ------------------------------------------------------------------------
\* main of md6mesh.py as a state machine (lines 249-267)
\* ------------------------------------------------------------------------
OptionSets == [rotate : BOOLEAN, flip_uv : BOOLEAN, flip_faces : BOOLEAN, smooth : BOOLEAN]

MeshInit ==
    /\ ArchiveIdle
    /\ options \in OptionSets
    /\ input \in MeshInputs
    /\ file_data = MeshBuffer(input)
    /\ part_number = 1
    /\ search_offset = HEADER_SIZE
    /\ model_data = NoModel
    /\ next_offset = 0
    /\ mpc = "extract"
    /\ decoded = <<>>
    /\ obj_files = <<>>

\* line 256-258: the call of extract_model
ExtractModel ==
    /\ mpc = "extract"
    /\ part_number <= MaxParts + 2
    /\ \E r \in {extract_model(file_data, search_offset)} :
           \/ /\ r.kind = "none"
              /\ mpc' = "done"
              /\ model_data' = NoModel
              /\ next_offset' = -1
              /\ UNCHANGED decoded
           \/ /\ r.kind = "error"
              /\ mpc' = "crashed"
              /\ UNCHANGED <<model_data, next_offset, decoded>>
           \/ /\ r.kind = "part"
              /\ mpc' = "transform"
              /\ model_data' = r.model
              /\ next_offset' = r.offset
              /\ decoded' = Append(decoded,
                                   [start |-> search_offset,
                                    marker_offset |-> r.marker_offset,
                                    vc_offset |-> r.vc_offset,
                                    fc_offset |-> r.fc_offset,
                                    first_vertex |-> r.first_vertex,
                                    face_offset |-> r.face_offset,
                                    offset |-> r.offset,
                                    model |-> r.model])
    /\ UNCHANGED <<options, input, file_data, part_number, search_offset, obj_files>>
    /\ UNCHANGED avars

\* line 260: apply_transforms
ApplyTransforms ==
    /\ mpc = "transform"
    /\ IF TransformsRaise(model_data, options)
       THEN mpc' = "crashed" /\ UNCHANGED model_data
       ELSE mpc' = "write" /\ model_data' = apply_transforms(model_data, options)
    /\ UNCHANGED <<options, input, file_data, part_number, search_offset, next_offset,
                   decoded, obj_files>>
    /\ UNCHANGED avars

\* lines 261-265: write_obj, then on to the next part
WriteObj ==
    /\ mpc = "write"
    /\ obj_files' = Append(obj_files, [part |-> part_number, model |-> model_data])
    /\ part_number' = part_number + 1
    /\ search_offset' = next_offset
    /\ mpc' = "extract"
    /\ UNCHANGED <<options, input, file_data, model_data, next_offset, decoded>>
    /\ UNCHANGED avars

MeshNext == ExtractModel \/ ApplyTransforms \/ WriteObj

MeshSpec == MeshInit /\ [][MeshNext]_vars

\* main runs to its end: the loop is a plain while loop of one thread
MeshFairSpec == MeshSpec /\ WF_vars(MeshNext)

\* ========================================================================
\* Properties of the mesh converter
\* ========================================================================
\* one past the last byte extract_model used for the k-th part it returned: its
\* marker, its header up to the first vertex record, its vertex and face records
ConsumedEnd(k) ==
    LET d == decoded[k]
    IN  Max(d.marker_offset + 8,
            d.first_vertex + 48 * d.model.vertex_count + 6 * d.model.face_count)

\* the file holds input.n complete parts whose faces name vertices of their part
WellFormedInput ==
    input.trunc = 0 /\ \A p \in 1..input.n : WellFormedPart(input, p)

FaceIndicesInRange(md) ==
    \A f \in 1..Len(md.faces) : \A c \in 1..3 : md.faces[f][c] < Len(md.vertices)

\* C8: every part extract_model returns, and the part after apply_transforms, has as
\* many UVs as vertices and only face indices below the number of vertices.
C8_EveryPartInRange ==
    mpc \in {"transform", "write"} =>
        /\ Len(model_data.uvs) = Len(model_data.vertices)
        /\ FaceIndicesInRange(model_data)

\* What does hold of every part: it has as many UVs as vertices (the declared vertex
\* count) and as many faces as declared; its vertices, UVs and faces are the ones
\* stored in the file, so its face indices are below the number of vertices exactly
\* when those of the file are; the transforms keep the lengths of all sequences and
\* the set of indices of each face, and computed normals are one per vertex.
PartsAsStored ==
    mpc \in {"transform", "write"} =>
        LET k == Len(decoded)
            src == decoded[k].model
        IN  /\ Len(src.vertices) = src.vertex_count
            /\ Len(src.uvs) = src.vertex_count
            /\ Len(src.faces) = src.face_count
            /\ src.vertex_count = PartVc(input, k) /\ src.face_count = PartFc(input, k)
            /\ \A v \in 1..Len(src.vertices) :
                   src.vertices[v] = VertexOf(v - 1) /\ src.uvs[v] = UvOf(v - 1)
            /\ \A f \in 1..Len(src.faces) : src.faces[f] = FaceOf(input, k, f - 1)
            /\ WellFormedPart(input, k) = FaceIndicesInRange(src)
            /\ mpc = "transform" => model_data = src
            /\ mpc = "write" =>
                   /\ Len(model_data.vertices) = Len(src.vertices)
                   /\ Len(model_data.uvs) = Len(src.uvs)
                   /\ Len(model_data.faces) = Len(src.faces)
                   /\ \A f \in 1..Len(src.faces) :
                          {model_data.faces[f][c] : c \in 1..3} = {src.faces[f][c] : c \in 1..3}
                   /\ model_data.has_normals = options.smooth
                   /\ model_data.has_normals =>
                          /\ Len(model_data.normals) = Len(model_data.vertices)
                          /\ FaceIndicesInRange(model_data)
                   /\ WellFormedPart(input, k) => FaceIndicesInRange(model_data)

\* a face record of the file names a vertex the part does not have: the part is
\* returned as it is, and either written to an .obj file or, with SHADE_SMOOTH,
\* calculate_vertex_normals raises IndexError
C8_Witness ==
    \/ \E k \in 1..Len(obj_files) : ~FaceIndicesInRange(obj_files[k].model)
    \/ /\ mpc = "crashed" /\ options.smooth /\ decoded # <<>>
       /\ Len(obj_files) < Len(decoded)
       /\ ~FaceIndicesInRange(decoded[Len(decoded)].model)

\* C9: the part-discovery loop terminates: a call of extract_model finds no marker,
\* fails on an out-of-bounds read, or returns an offset greater than the one it
\* searched from, so no marker is decoded twice and main reaches its end.
C9_Terminates ==
    /\ [][/\ (mpc = "extract" /\ mpc' = "transform") =>
                 /\ next_offset' > search_offset
                 /\ next_offset' > decoded'[Len(decoded')].marker_offset
          /\ mpc = "write" => search_offset' > search_offset]_vars
    /\ [](\A j, k \in 1..Len(decoded) :
              j < k => decoded[j].marker_offset < decoded[k].marker_offset)
    /\ <>(mpc \in {"done", "crashed"})

C9_Witness ==
    /\ mpc = "done"
    /\ \E k \in 1..Len(decoded) :
           decoded[k].model.vertex_count = 0 /\ decoded[k].model.face_count = 0

\* C10 as stated: the skips are measured from the end of the 8-byte marker: for a
\* marker at m the vertex count is read at m+8+19, the face count at m+8+19+2+2, the
\* first vertex record is at m+8+19+2+2+2+26 and the offset returned is the first
\* vertex offset + 48 * vertex count + 6 * face count.
C10_SkipsFromMarkerEnd ==
    \A k \in 1..Len(decoded) :
        LET m == decoded[k].marker_offset
        IN  /\ decoded[k].vc_offset = m + 8 + 19
            /\ decoded[k].fc_offset = m + 8 + 19 + 2 + 2
            /\ decoded[k].first_vertex = m + 8 + 19 + 2 + 2 + 2 + 26
            /\ decoded[k].offset = decoded[k].first_vertex
                                   + 48 * decoded[k].model.vertex_count
                                   + 6 * decoded[k].model.face_count

====
